---- MODULE Spec2Model ----
(***************************************************************************)
(* Per-user OAuth credential lifecycle of the student-coach Flask app.     *)
(*                                                                         *)
(* Two iterations of the application are modelled, the one in src/app.py   *)
(* (version = "app") and the one in src/test.py (version = "test").  They  *)
(* share the token-file naming, get_google_calendar_service, the callback  *)
(* and the logout; they differ in /authorize, /add_event and /upload.      *)
(*                                                                         *)
(* Strings whose characters matter (e-mail addresses, file names) are      *)
(* sequences of one-character strings.  Python's None and the empty string *)
(* are both falsy and are treated alike by every line modelled here; both  *)
(* are written <<>> (an e-mail) or 0 (an OAuth state).                     *)
(***************************************************************************)
EXTENDS Integers, Sequences, FiniteSets, TLC

\* ---------------------------------------------------------------- bounds
MaxTime == 1          \* the clock runs 0 .. MaxTime
NumStates == 1        \* distinct anti-forgery state values the library may draw
NumSessions == 1      \* browser sessions

\* ------------------------------------------------------- program constants
\* src/app.py:51-56; the four scope URLs, abbreviated
SCOPES == {"calendar", "userinfo.email", "userinfo.profile", "openid"}

\* src/app.py:58; the deployment modelled has its credentials.json
GOOGLE_ENABLED == TRUE

\* ------------------------------------------------------------ environment
\* Scope set of a token file written by an earlier deployment (spec section 8)
OldScopes == {"calendar"}

\* Lifetime of an access token issued by the provider, in clock ticks
TokenLifetime == 1

\* Expiry of the access token in a token file left by an earlier deployment
LegacyExpiry == 1

\* E-mail addresses the provider's profile lookup may return
Alice == <<"a", ".", "b", "@", "x">>
Carol == <<"c", "@", "x">>
Identities == {Alice, Carol}

\* An address that differs from Alice's only in "_" for ".", and the two
\* together: the two addresses get_token_filename is applied to in SpecKeys
Alyce == <<"a", "_", "b", "@", "x">>
SlotMates == {Alice, Alyce}

\* Provider accounts that may consent: one per address, and one whose userinfo
\* answer carries no "email" (user_info.get("email") is None)
NoMail == <<"?">>
Accounts == Identities \cup {NoMail}

None == <<>>

\* Browser sessions (one signed cookie each)
Sessions == 1 .. NumSessions

\* Values flow.authorization_url() may generate as the anti-forgery state;
\* 0 stands for "no state" (None or the empty string, both falsy)
NoState == 0
OAuthStates == 1 .. NumStates

\* Values the state parameter of a callback URL may carry (0: it carries none)
UrlStates == 0 .. NumStates

\* ------------------------------------------------------------ pure helpers
\* str.replace(old, new) on a single character
RECURSIVE Replace(_, _, _)
Replace(s, old, new) ==
    IF s = <<>> THEN <<>>
    ELSE <<IF Head(s) = old THEN new ELSE Head(s)>> \o Replace(Tail(s), old, new)

Anonymous == <<"a", "n", "o", "n", "y", "m", "o", "u", "s">>

\* get_token_filename: f"token_{safe_email}.pickle"
get_token_filename(email) ==
    LET e == IF email = None THEN Anonymous ELSE email
        safe_email == Replace(Replace(e, "@", "_"), ".", "_")
    IN  <<"token_">> \o safe_email \o <<".pickle">>

\* The file name of every e-mail value the handlers can hold, computed once
TokenFile ==
    [e \in Identities \cup SlotMates \cup {None} |-> get_token_filename(e)]

Filenames == {TokenFile[e] : e \in DOMAIN TokenFile}

\* A pickled google.oauth2.credentials.Credentials object.  kind = "truncated"
\* is a file that open(..., "wb") emptied and pickle.dump did not complete.
Creds(owner, expiry, refresh_token, scopes) ==
    [kind |-> "creds", owner |-> owner, expiry |-> expiry,
     refresh_token |-> refresh_token, scopes |-> scopes]

Truncated == [kind |-> "truncated", owner |-> None, expiry |-> 0,
              refresh_token |-> FALSE, scopes |-> {}]

NoCreds == [kind |-> "none", owner |-> None, expiry |-> 0,
            refresh_token |-> FALSE, scopes |-> {}]

\* Credentials.expired / Credentials.valid at clock value t
Expired(c, t) == c.kind = "creds" /\ t >= c.expiry
Valid(c, t) == c.kind = "creds" /\ ~Expired(c, t)

VARIABLES
    version,    \* "app" (src/app.py) or "test" (src/test.py)
    now,        \* the clock
    files,      \* token files on disk: file name -> content (NoCreds: no file)
    session,    \* per browser session: the Flask session dictionary
    last,       \* what the handler that ran last saw and answered
    writing     \* the callback that has opened its token file and not yet
                \* dumped the credentials into it, if there is one

vars == <<version, now, files, session, last, writing>>

\* os.path.exists(name) and the content pickle.load reads
Exists(fs, name) == fs[name].kind # "none"
Load(fs, name) == fs[name]

\* os.remove(name) / a completed write of c to name
Remove(fs, name) == [fs EXCEPT ![name] = NoCreds]
Put(fs, name, c) == [fs EXCEPT ![name] = c]

NoFiles == [n \in Filenames |-> NoCreds]

\* session.get("google_email")
SessionEmail(ss) == IF ss.has_email THEN ss.google_email ELSE None

EmptySession == [state |-> NoState, has_email |-> FALSE, google_email |-> None]

\* What `last` records of a handler run: the token file it found for the
\* session's identity (found), what get_google_calendar_service answered
\* (service, refresh_calls, refresh: the provider's answer to a refresh
\* request, creds: the credentials the handle is built on),
\* what the callback was given and how far it got (url_state, stage,
\* identity, and in creds the credentials it exchanged), and the response.
\* Fields a handler does not use keep the values below.
Idle ==
    [op |-> "init", s |-> 0, found |-> NoCreds,
     service |-> "na", refresh_calls |-> 0, refresh |-> "na", creds |-> NoCreds,
     redirect |-> "", flash |-> "", status |-> "ok",
     url_state |-> NoState, stage |-> "", identity |-> None]

\* -------------------------------------------------------------- resolve
\* Slips of line 121: "creds and not creds.valid", "not creds or creds.valid"
NotUsable_MissingIsUsable(creds, t) == creds.kind # "none" /\ ~Valid(creds, t)
NotUsable_ValidIsNot(creds, t) == creds.kind = "none" \/ Valid(creds, t)

\* Line 121: not creds or not creds.valid
NotUsable(creds, t) == creds.kind = "none" \/ ~Valid(creds, t)

\* Line 122: creds and creds.expired and creds.refresh_token
Refreshable(creds, t) ==
    creds.kind = "creds" /\ Expired(creds, t) /\ creds.refresh_token

\* get_google_calendar_service() for a session ss at clock t; refresh_ok is the
\* provider's answer to a refresh request, should one be made.  The function
\* writes no file.  service: "none" (returns None), "handle" (returns the
\* service built on creds), "raised" (an exception leaves the function:
\* pickle.load on a truncated file, creds.refresh on a refused refresh).
get_google_calendar_service(ss, fs, t, refresh_ok) ==
    LET email == SessionEmail(ss)
        token_file == TokenFile[email]
        creds == IF Exists(fs, token_file) THEN Load(fs, token_file) ELSE NoCreds
        none == [service |-> "none", refresh_calls |-> 0, refresh |-> "na",
                 creds |-> NoCreds]
    IN  IF ~GOOGLE_ENABLED THEN none
        ELSE IF email = None THEN none
        ELSE IF creds.kind = "truncated"
             THEN [none EXCEPT !.service = "raised"]
        ELSE IF NotUsable(creds, t)
             THEN IF Refreshable(creds, t)
                  THEN IF refresh_ok
                       THEN [service |-> "handle", refresh_calls |-> 1,
                             refresh |-> "ok",
                             creds |-> [creds EXCEPT !.expiry = t + TokenLifetime]]
                       ELSE [service |-> "raised", refresh_calls |-> 1,
                             refresh |-> "failed", creds |-> NoCreds]
                  ELSE none
        ELSE [service |-> "handle", refresh_calls |-> 0, refresh |-> "na",
              creds |-> creds]

\* The token file of the session's identity, as a handler finds it
Found(ss, fs) ==
    IF SessionEmail(ss) = None THEN NoCreds
    ELSE Load(fs, TokenFile[SessionEmail(ss)])

\* The part of `last` every handler that asks for the service fills in
Asked(op, s, r) ==
    [Idle EXCEPT !.op = op, !.s = s, !.found = Found(session[s], files),
                 !.service = r.service, !.refresh_calls = r.refresh_calls,
                 !.refresh = r.refresh, !.creds = r.creds]

NotAsked(op, s) == [Idle EXCEPT !.op = op, !.s = s]

Answer(l, status, redirect, flash) ==
    [l EXCEPT !.status = status, !.redirect = redirect, !.flash = flash]

\* ------------------------------------------------------------- handlers
\* GET /
dashboard(s, refresh_ok) ==
    LET r == get_google_calendar_service(session[s], files, now, refresh_ok)
    IN  /\ last' = IF SessionEmail(session[s]) = None
                   THEN Answer(NotAsked("dashboard", s), "ok", "", "")
                   ELSE IF r.service = "raised"
                        THEN Answer(Asked("dashboard", s, r), "500", "", "")
                        ELSE Answer(Asked("dashboard", s, r), "ok", "", "")
        /\ UNCHANGED <<version, now, files, session, writing>>

\* POST /add_event
add_event(s, refresh_ok, parse_ok) ==
    LET r == get_google_calendar_service(session[s], files, now, refresh_ok)
        a == Asked("add_event", s, r)
    IN  /\ last' =
             IF version = "app"
             THEN IF r.service = "raised" THEN Answer(a, "500", "", "")
                  ELSE IF r.service = "none"
                       THEN Answer(a, "ok", "authorize", "warning")
                  ELSE Answer(a, "ok", "dashboard",
                              IF parse_ok THEN "success" ELSE "error")
             ELSE IF ~GOOGLE_ENABLED
                  THEN Answer(NotAsked("add_event", s), "ok", "add_event_form", "info")
                  ELSE IF ~parse_ok
                  THEN Answer(NotAsked("add_event", s), "ok", "add_event_form", "error")
                  ELSE IF r.service = "raised"
                       THEN Answer(a, "ok", "add_event_form", "error")
                  ELSE IF r.service = "none"
                       THEN Answer(a, "ok", "authorize", "")
                  ELSE Answer(a, "ok", "add_event_form", "success")
        /\ UNCHANGED <<version, now, files, session, writing>>

\* POST /upload
upload(s, refresh_ok, file_ok, cols_ok) ==
    LET r == get_google_calendar_service(session[s], files, now, refresh_ok)
        a == Asked("upload", s, r)
        n == NotAsked("upload", s)
    IN  /\ last' =
             IF version = "app"
             THEN IF ~file_ok THEN Answer(n, "ok", "upload", "warning")
                  ELSE IF r.service = "raised" THEN Answer(a, "500", "", "")
                  ELSE IF r.service = "none"
                       THEN Answer(a, "ok", "authorize", "warning")
                  ELSE IF ~cols_ok THEN Answer(a, "ok", "upload", "error")
                  ELSE Answer(a, "ok", "dashboard", "success")
             ELSE IF ~session[s].has_email
                  THEN Answer(n, "ok", "upload_form", "warning")
                  ELSE IF ~file_ok THEN Answer(n, "ok", "upload_form", "error")
                  ELSE IF r.service = "raised"
                       THEN Answer(a, "ok", "upload_form", "error")
                  ELSE IF r.service = "none"
                       THEN Answer(a, "ok", "authorize", "")
                  ELSE Answer(a, "ok", "upload_form", "success")
        /\ UNCHANGED <<version, now, files, session, writing>>

\* clear_old_tokens(): removes every file token_*.pickle of the directory
clear_old_tokens(fs) == [n \in Filenames |-> NoCreds]

\* A slip of the comparison: only scopes granted beyond SCOPES count
ScopesChanged_ExtraOnly(creds) == ~(creds.scopes \subseteq SCOPES)

\* The scope comparison of /authorize in src/test.py
ScopesChanged(creds) == creds.scopes # SCOPES

\* The token-file cleanup /authorize does before it issues the URL
AuthorizeCleanup(ss, fs) ==
    IF version = "app" THEN clear_old_tokens(fs)
    ELSE LET email == SessionEmail(ss)
             token_file == TokenFile[email]
         IN  IF email # None /\ Exists(fs, token_file)
                 /\ (Load(fs, token_file).kind = "truncated"
                     \/ ScopesChanged(Load(fs, token_file)))
             THEN Remove(fs, token_file)
             ELSE fs

\* GET /authorize; st is the state flow.authorization_url() generates
authorize(s, st) ==
    /\ IF ~GOOGLE_ENABLED
       THEN /\ last' = Answer(NotAsked("authorize", s), "ok", "dashboard", "error")
            /\ UNCHANGED <<files, session>>
       ELSE /\ files' = AuthorizeCleanup(session[s], files)
            /\ session' = [session EXCEPT ![s].state = st]
            /\ last' = Answer([NotAsked("authorize", s) EXCEPT
                                   !.found = Found(session[s], files)],
                              "ok", "provider", "")
    /\ UNCHANGED <<version, now, writing>>

\* build_flow(state=...) followed by the state check of flow.fetch_token:
\* the flow carries a state only when the session's one is truthy, and only a
\* flow that carries a state compares it with the callback URL's
StateRejected(session_state, url_state) ==
    session_state # NoState /\ url_state # session_state

\* How far /oauth2callback gets before an exception (or the end) stops it
CallbackStage(session_state, url_state, code_ok, profile, write, db_ok) ==
    IF StateRejected(session_state, url_state) THEN "state_mismatch"
    ELSE IF ~code_ok THEN "exchange_error"
    ELSE IF profile = "raises" THEN "profile_error"
    ELSE IF write # "ok" THEN "storage_error"
    ELSE IF ~db_ok /\ version = "app" THEN "db_error"
    ELSE "success"

\* Stages at which session["google_email"] = email has run
SetsEmail(stage) == stage \in {"storage_error", "db_error", "success"}

\* A slip of the write: the file is named before the e-mail is known
WrittenFiles_Anonymous(fs, stage, write, email, creds) ==
    IF stage \in {"db_error", "success"} THEN Put(fs, TokenFile[None], creds)
    ELSE fs

\* The token file after the stage: open(..., "wb") empties it, pickle.dump fills it
WrittenFiles(fs, stage, write, email, creds) ==
    LET token_file == TokenFile[email]
    IN  IF stage \in {"db_error", "success"} THEN Put(fs, token_file, creds)
        ELSE IF stage = "storage_error" /\ write = "dump_fails"
             THEN Put(fs, token_file, Truncated)
        ELSE fs

\* GET /oauth2callback?state=url_state&code=...; account is the provider account
\* that consented, profile the outcome of the userinfo lookup, write that of
\* writing the token file
oauth2callback(s, url_state, code_ok, account, profile, refresh_token, write, db_ok) ==
    LET stage == CallbackStage(session[s].state, url_state, code_ok, profile,
                               write, db_ok)
        creds == Creds(account, now + TokenLifetime, refresh_token, SCOPES)
        email == IF account = NoMail THEN None ELSE account
        l == [NotAsked("oauth2callback", s) EXCEPT
                 !.url_state = url_state, !.stage = stage,
                 !.identity = IF SetsEmail(stage) THEN email ELSE None,
                 !.creds = IF SetsEmail(stage) THEN creds ELSE NoCreds]
    IN  /\ IF ~GOOGLE_ENABLED
           THEN /\ last' = Answer(NotAsked("oauth2callback", s), "ok",
                                  "dashboard", "error")
                /\ UNCHANGED <<files, session>>
           ELSE /\ session' = IF SetsEmail(stage)
                              THEN [session EXCEPT ![s].has_email = TRUE,
                                                   ![s].google_email = email]
                              ELSE session
                /\ files' = WrittenFiles(files, stage, write, email, creds)
                /\ last' = Answer(l, "ok", "dashboard",
                                  IF stage = "success" THEN "success" ELSE "error")
        /\ UNCHANGED <<version, now, writing>>

\* No callback is between open() and pickle.dump
NoWrite ==
    [active |-> FALSE, s |-> 0, sess |-> EmptySession, url_state |-> NoState,
     email |-> None, creds |-> NoCreds]

\* /oauth2callback up to and including open(get_token_filename(email), "wb"),
\* for a callback that passes the state check, the code exchange and the
\* profile lookup.  open() creates the file or empties the existing one.  The
\* session the request works on is its own copy of the cookie; the browser
\* gets it back with the response.
oauth2callback_open(s, url_state, account, refresh_token) ==
    LET creds == Creds(account, now + TokenLifetime, refresh_token, SCOPES)
        email == IF account = NoMail THEN None ELSE account
    IN  /\ GOOGLE_ENABLED
        /\ ~writing.active
        /\ ~StateRejected(session[s].state, url_state)
        /\ files' = Put(files, TokenFile[email], Truncated)
        /\ writing' = [active |-> TRUE, s |-> s, url_state |-> url_state,
                       sess |-> [session[s] EXCEPT !.has_email = TRUE,
                                                   !.google_email = email],
                       email |-> email, creds |-> creds]
        /\ last' = [NotAsked("oauth2callback_open", s) EXCEPT
                        !.url_state = url_state, !.identity = email,
                        !.creds = creds]
        /\ UNCHANGED <<version, now, session>>

\* The rest of that callback: pickle.dump into the open file, the user table,
\* the response.  A file that was removed after open() stays removed: the dump
\* goes to the unlinked file, which vanishes when it is closed.
oauth2callback_dump(db_ok) ==
    LET w == writing
        token_file == TokenFile[w.email]
        stage == CallbackStage(w.sess.state, w.url_state, TRUE, "ok", "ok", db_ok)
    IN  /\ w.active
        /\ files' = IF Exists(files, token_file)
                    THEN Put(files, token_file, w.creds)
                    ELSE files
        /\ session' = [session EXCEPT ![w.s] = w.sess]
        /\ writing' = NoWrite
        /\ last' = Answer([NotAsked("oauth2callback", w.s) EXCEPT
                               !.url_state = w.url_state, !.stage = stage,
                               !.identity = w.email, !.creds = w.creds],
                          "ok", "dashboard",
                          IF stage = "success" THEN "success" ELSE "error")
        /\ UNCHANGED <<version, now>>

\* session.pop("google_email", None)
pop_google_email(ss) == [ss EXCEPT !.has_email = FALSE, !.google_email = None]

\* GET /logout_google
logout_google(s) ==
    /\ session' = [session EXCEPT ![s] = pop_google_email(session[s])]
    /\ last' = Answer(NotAsked("logout_google", s), "ok", "dashboard", "info")
    /\ UNCHANGED <<version, now, files, writing>>

\* Time passes
Tick ==
    /\ now < MaxTime
    /\ now' = now + 1
    /\ last' = [Idle EXCEPT !.op = "tick"]
    /\ UNCHANGED <<version, files, session, writing>>

\* ------------------------------------------------------------------ Init
\* A token file an earlier deployment, which requested OldScopes, left behind
Legacy(owner, refresh_token) ==
    Creds(owner, LegacyExpiry, refresh_token, OldScopes)

\* A fresh process: the token directory is empty or holds one file of an earlier
\* deployment, and the first browser may still carry its signed session cookie
Init ==
    /\ version \in {"app", "test"}
    /\ now = 0
    /\ \/ files = NoFiles
       \/ \E i \in Identities :
            files = Put(NoFiles, TokenFile[i], Legacy(i, TRUE))
    /\ \/ session = [s \in Sessions |-> EmptySession]
       \/ \E i \in Identities :
            session = [s \in Sessions |->
                         IF s = 1
                         THEN [EmptySession EXCEPT !.has_email = TRUE,
                                                   !.google_email = i]
                         ELSE EmptySession]
    /\ last = Idle
    /\ writing = NoWrite

ProfileOutcomes == {"ok", "raises"}
WriteOutcomes == {"ok", "open_fails", "dump_fails"}

\* What the environment decides about one callback.  An input the handler
\* never gets to read (the profile after a rejected code, the write after a
\* failed profile lookup, ...) is fixed to one value.
CallbackInputs ==
    {i \in [url_state : UrlStates, code_ok : BOOLEAN, account : Accounts,
            profile : ProfileOutcomes, refresh_token : BOOLEAN,
            write : WriteOutcomes, db_ok : BOOLEAN] :
        /\ ~i.code_ok => i.profile = "raises"
        /\ i.profile = "raises" =>
             i.account = NoMail /\ i.refresh_token /\ i.write = "open_fails"
        /\ i.account = NoMail => i.refresh_token
        /\ i.write # "ok" => i.db_ok}

\* The same for what this session and this version never read: the code after
\* a state mismatch, the database error src/test.py swallows
InputsRead(s, i) ==
    /\ StateRejected(session[s].state, i.url_state) => ~i.code_ok
    /\ version = "test" => i.db_ok

Next ==
    \/ Tick
    \/ \E s \in Sessions, st \in OAuthStates : authorize(s, st)
    \/ \E s \in Sessions, i \in CallbackInputs :
            /\ InputsRead(s, i)
            /\ oauth2callback(s, i.url_state, i.code_ok, i.account, i.profile,
                              i.refresh_token, i.write, i.db_ok)
    \/ \E s \in Sessions : logout_google(s)
    \/ \E s \in Sessions, refresh_ok \in BOOLEAN : dashboard(s, refresh_ok)
    \/ \E s \in Sessions, refresh_ok \in BOOLEAN, parse_ok \in BOOLEAN :
            add_event(s, refresh_ok, parse_ok)
    \/ \E s \in Sessions, refresh_ok \in BOOLEAN, file_ok \in BOOLEAN,
          cols_ok \in BOOLEAN : upload(s, refresh_ok, file_ok, cols_ok)

Spec == Init /\ [][Next]_vars

\* ------------------------------------------------ concurrent requests
\* The threaded server runs requests concurrently: the callback's write of the
\* token file is two steps, and every other handler may run between them
NextWrite ==
    \/ Tick
    \/ \E s \in Sessions, st \in OAuthStates : authorize(s, st)
    \/ \E s \in Sessions, url_state \in UrlStates, account \in Accounts,
          refresh_token \in BOOLEAN :
            /\ account = NoMail => refresh_token
            /\ oauth2callback_open(s, url_state, account, refresh_token)
    \/ \E db_ok \in BOOLEAN :
            /\ version = "test" => db_ok
            /\ oauth2callback_dump(db_ok)
    \/ \E s \in Sessions : logout_google(s)
    \/ \E s \in Sessions, refresh_ok \in BOOLEAN : dashboard(s, refresh_ok)
    \/ \E s \in Sessions, refresh_ok \in BOOLEAN, parse_ok \in BOOLEAN :
            add_event(s, refresh_ok, parse_ok)
    \/ \E s \in Sessions, refresh_ok \in BOOLEAN, file_ok \in BOOLEAN,
          cols_ok \in BOOLEAN : upload(s, refresh_ok, file_ok, cols_ok)

SpecWrite == Init /\ [][NextWrite]_vars

\* ------------------------------------------------- token-file names
\* get_token_filename applied to two addresses that differ only in "_" for
\* ".": the token directory and the cookie start out as in Init, the accounts
\* that consent are the two addresses
InitKeys ==
    /\ version \in {"app", "test"}
    /\ now = 0
    /\ \/ files = NoFiles
       \/ \E i \in SlotMates :
            files = Put(NoFiles, TokenFile[i], Legacy(i, TRUE))
    /\ \/ session = [s \in Sessions |-> EmptySession]
       \/ \E i \in SlotMates :
            session = [s \in Sessions |->
                         IF s = 1
                         THEN [EmptySession EXCEPT !.has_email = TRUE,
                                                   !.google_email = i]
                         ELSE EmptySession]
    /\ last = Idle
    /\ writing = NoWrite

NextKeys ==
    \/ Tick
    \/ \E s \in Sessions, st \in OAuthStates : authorize(s, st)
    \/ \E s \in Sessions, url_state \in UrlStates, account \in SlotMates,
          refresh_token \in BOOLEAN :
            /\ ~StateRejected(session[s].state, url_state)
            /\ oauth2callback(s, url_state, TRUE, account, "ok", refresh_token,
                              "ok", TRUE)
    \/ \E s \in Sessions : logout_google(s)
    \/ \E s \in Sessions, refresh_ok \in BOOLEAN : dashboard(s, refresh_ok)

SpecKeys == InitKeys /\ [][NextKeys]_vars

\* ================================================================ claims
\* The handlers that call get_google_calendar_service (resolve); none of them
\* changes now, files or session, so after one of them last.found is also the
\* token file as it is and as it was.
ResolveOps == {"dashboard", "add_event", "upload"}
Resolved == last.op \in ResolveOps /\ last.service # "na"

\* The e-mail of the session the last handler served
LastEmail == SessionEmail(session[last.s])

\* C1: /oauth2callback fails, stores no token file and does not set the session
\* identity whenever the session's stored state is absent or differs from the
\* state parameter of the callback URL.
C1_StateMismatchRejected ==
    [][\A s \in Sessions :
         (/\ last'.op = "oauth2callback"
          /\ last'.s = s
          /\ \/ session[s].state = NoState
             \/ session[s].state # last'.url_state)
         => (/\ last'.flash = "error"
             /\ files' = files
             /\ session'[s] = session[s])]_vars

\* C2: resolve of an expired record with a refresh token makes exactly one
\* refresh call and, when the refresh succeeds, the stored record is overwritten
\* so that its expiry is in the future.
C2_RefreshPersisted ==
    (Resolved /\ Expired(last.found, now) /\ last.found.refresh_token)
    => (/\ last.refresh_calls = 1
        /\ last.refresh = "ok" => Valid(Load(files, TokenFile[LastEmail]), now))

\* C3: resolve of an expired record whose refresh fails deletes the stored
\* record and returns NeedsConsent (None), raising no error.
C3_RefreshFailureDeletes ==
    (Resolved /\ Expired(last.found, now) /\ last.refresh = "failed")
    => (/\ last.service = "none"
        /\ last.status = "ok"
        /\ ~Exists(files, TokenFile[LastEmail]))

\* C4: resolve for an identity with no token file returns None and makes no
\* refresh call, and add_event and upload then redirect to /authorize.
C4_AbsentNeedsConsent ==
    (Resolved /\ LastEmail # None /\ ~Exists(files, TokenFile[LastEmail]))
    => (/\ last.service = "none"
        /\ last.refresh_calls = 0
        /\ last.op \in {"add_event", "upload"} => last.redirect = "authorize")

C4_Witness ==
    /\ Resolved /\ last.op = "upload"
    /\ LastEmail # None /\ ~Exists(files, TokenFile[LastEmail])
    /\ last.redirect = "authorize"

\* C5: resolve of a valid, unexpired record returns a handle built on the stored
\* credentials and makes no refresh call.
C5_ValidNoRefresh ==
    (Resolved /\ Valid(last.found, now))
    => (/\ last.service = "handle"
        /\ last.refresh_calls = 0
        /\ last.creds = last.found)

C5_Witness ==
    Resolved /\ Valid(last.found, now) /\ last.service = "handle"

\* C6: after a callback that got through the state check, the code exchange and
\* a profile lookup returning an e-mail, and wrote its file, the exchanged
\* credentials are stored under the file name of exactly that e-mail (no other
\* file changes), the session identity is that e-mail, and
\* get_google_calendar_service called next in that session returns a handle on
\* those credentials without a refresh.
C6_ConsentStores ==
    [][\A s \in Sessions :
         (/\ last'.op = "oauth2callback"
          /\ last'.s = s
          /\ last'.stage \in {"success", "db_error"}
          /\ last'.identity \in Identities)
         => (/\ files' = Put(files, TokenFile[last'.identity], last'.creds)
             /\ last'.creds.kind = "creds"
             /\ last'.creds.owner = last'.identity
             /\ session'[s].has_email
             /\ session'[s].google_email = last'.identity
             /\ \A refresh_ok \in BOOLEAN :
                  LET r == get_google_calendar_service(session'[s], files', now',
                                                       refresh_ok)
                  IN  /\ r.service = "handle"
                      /\ r.refresh_calls = 0
                      /\ r.creds = last'.creds)]_vars

C6_Witness ==
    /\ last.op = "oauth2callback"
    /\ last.stage = "success"
    /\ last.identity \in Identities
    /\ session[last.s].state # NoState
    /\ session[last.s].state = last.url_state
    /\ Load(files, TokenFile[last.identity]) = last.creds

\* C7: /logout_google deletes the token file of the session's identity and
\* clears the identity from the session, and running it again changes nothing.
C7_LogoutDeletes ==
    [][\A s \in Sessions :
         (last'.op = "logout_google" /\ last'.s = s)
         => (/\ ~session'[s].has_email
             /\ SessionEmail(session[s]) # None
                  => ~Exists(files', TokenFile[SessionEmail(session[s])])
             /\ pop_google_email(session'[s]) = session'[s])]_vars

C9_OtherIdentitiesUntouched ==
    [][\A s \in Sessions, b \in Identities :
         (/\ last'.s = s
          /\ SessionEmail(session[s]) \in Identities
          /\ b # SessionEmail(session[s])
          /\ b # SessionEmail(session'[s]))
         => Load(files', TokenFile[b]) = Load(files, TokenFile[b])]_vars

\* C10: when writing the token file fails in /oauth2callback, the session
\* carries no identity after the handler returns.
C10_FailedWriteNotAuthenticated ==
    (last.op = "oauth2callback" /\ last.stage = "storage_error")
    => ~session[last.s].has_email

\* C11: a state generated by /authorize is consumed by the first callback
\* processed against it: a second callback carrying the same state, with no
\* /authorize in between, is rejected by the state check.
C11_StateConsumedOnce ==
    [][\A s \in Sessions :
         (/\ last.op = "oauth2callback" /\ last.s = s
          /\ last.url_state \in OAuthStates
          /\ last.stage # "state_mismatch"
          /\ session[s].state = last.url_state
          /\ last'.op = "oauth2callback" /\ last'.s = s
          /\ last'.url_state = last.url_state)
         => last'.stage = "state_mismatch"]_vars

\* Stages at which the callback has queried (and may have extended) the user table
ReachedUserTable(stage) == stage \in {"db_error", "success"}

\* C12: when the profile lookup raises or returns no e-mail, the callback
\* answers with an error notice and establishes nothing: the session is as it
\* was (no "google_email" key is set), no token file is written and the user
\* table is not reached.
C12_NoIdentityNoSession ==
    [][\A s \in Sessions :
         (/\ last'.op = "oauth2callback" /\ last'.s = s
          /\ \/ last'.stage = "profile_error"
             \/ SetsEmail(last'.stage) /\ last'.identity = None)
         => (/\ last'.flash = "error"
             /\ session'[s] = session[s]
             /\ files' = files
             /\ ~ReachedUserTable(last'.stage))]_vars

\* C13: resolve of an expired record without a refresh token deletes the
\* stored record, returns None and makes no refresh call.
C13_ExpiredNoRefreshTokenDeleted ==
    (Resolved /\ Expired(last.found, now) /\ ~last.found.refresh_token)
    => (/\ last.service = "none"
        /\ last.refresh_calls = 0
        /\ ~Exists(files, TokenFile[LastEmail]))

\* The handlers that read the token file of the session's identity
ReadsTokenFile(op) ==
    op \in ResolveOps \/ (op = "authorize" /\ version = "test")

\* C14: while a callback is writing the token file of an identity, a handler
\* that reads that identity's file finds a complete record, never the emptied
\* file, and does not remove the file being written.
C14_AtomicReplace ==
    \A s \in Sessions :
        (/\ writing.active
         /\ ReadsTokenFile(last.op) /\ last.s = s
         /\ SessionEmail(session[s]) = writing.email)
        => (/\ last.found.kind # "truncated"
            /\ Exists(files, TokenFile[writing.email]))

\* C15: every identity has a token file of its own: the service a handler
\* gets is built on the credentials of the session's identity, and a callback
\* that stores the record of one identity leaves the record of every other
\* identity as it is.
C15_OwnSlot ==
    [][\A s \in Sessions :
         /\ (/\ last'.op \in ResolveOps /\ last'.s = s
             /\ last'.service = "handle")
            => last'.creds.owner = SessionEmail(session'[s])
         /\ (last'.op = "oauth2callback" /\ last'.s = s)
            => \A e \in DOMAIN TokenFile :
                 (/\ e # None /\ e # last'.identity
                  /\ Load(files, TokenFile[e]).kind = "creds"
                  /\ Load(files, TokenFile[e]).owner = e)
                 => Load(files', TokenFile[e]) = Load(files, TokenFile[e])]_vars

====
